---- MODULE Spec2Model ----
(***************************************************************************)
(* Sigma converter configuration (sigma/configuration.py) and the QRadar   *)
(* output backend (sigma/backends/qradar.py).                              *)
(*                                                                         *)
(* Python values are encoded as follows.                                   *)
(*   - None is the string "None"; a key that is missing from a YAML map    *)
(*     is "#nokey"; a YAML value that is not a string is "#int".           *)
(*   - A text is a sequence of atoms.  Every character that matters to a   *)
(*     check (blank, quotes, backslash, wildcard) is an atom of its own;   *)
(*     runs of other characters may be one atom.  Two texts are equal      *)
(*     Python strings iff they are equal sequences.                        *)
(*   - An exception is a result record whose err field is not "none".      *)
(***************************************************************************)
EXTENDS Integers, Sequences, FiniteSets, TLC

VARIABLES
    config,           \* SigmaConfiguration.config: the parsed YAML document
    logsourcemerging, \* SigmaConfiguration.logsourcemerging
    defaultindex,     \* SigmaConfiguration.defaultindex
    logsources,       \* SigmaConfiguration.logsources
    backend,          \* SigmaConfiguration.backend
    attached,         \* number of set_backend calls made so far
    qradarPrefixAgg,  \* QRadarBackend.qradarPrefixAgg (instance attribute)
    qradarSuffixAgg,  \* QRadarBackend.qradarSuffixAgg (instance attribute)
    parsedlogsource,  \* QRadarBackend.parsedlogsource (instance attribute)
    last              \* the last call made, its arguments and its outcome

vars == <<config, logsourcemerging, defaultindex, logsources, backend, attached,
          qradarPrefixAgg, qradarSuffixAgg, parsedlogsource, last>>

cfgvars == <<config, logsourcemerging, defaultindex, logsources, backend, attached>>
bevars == <<qradarPrefixAgg, qradarSuffixAgg, parsedlogsource>>

----------------------------------------------------------------------------
(* Bounds *)

MaxDefs == 2      \* log-source definitions in a configuration document
MaxAttach == 2    \* set_backend calls on one configuration
MaxMerge == 2     \* definitions handed to one direct merge
MaxLen == 3       \* characters in a scalar value

----------------------------------------------------------------------------
(* Python values *)

None == "None"
NoKey == "#nokey"
NonStr == "#int"
Unset == "#unset"
UnsetText == <<"#unset">>   \* an instance attribute that was never assigned

MM_AND == "and"
MM_OR == "or"

SeqsUpTo(S, n) == UNION {[1..k -> S] : k \in 0..n}

RECURSIVE SeqToSet(_)
SeqToSet(s) == IF s = <<>> THEN {} ELSE {Head(s)} \cup SeqToSet(Tail(s))

\* Index patterns, as texts of single characters.
IdxAuth == <<"a", "u", "t", "h">>
IdxFlows == <<"f", "l", "o", "w", "s">>
IdxNetflow == <<"n", "e", "t", "f", "l", "o", "w">>
IdxFlo == <<"f", "l", "o", "-", "w">>
IdxMain == <<"m", "a", "i", "n">>

\* A YAML index / defaultindex value: t is its Python type, v its strings.
YStr(p) == [t |-> "str", v |-> <<p>>]
YList(ps) == [t |-> "list", v |-> ps]
YAbsent == [t |-> "nokey", v |-> <<>>]
YInt == [t |-> "int", v |-> <<>>]
YBadList == [t |-> "badlist", v |-> <<>>]   \* a list holding a non-string

\* A conditions map of a definition: t its Python type, v its (key, value) items.
CondAbsent == [t |-> "nokey", v |-> <<>>]
CondNotMap == [t |-> "str", v |-> <<>>]
CondMap(items) == [t |-> "dict", v |-> items]

\* ConditionAND() / ConditionOR() holding items, as the configuration builds them.
CondNode(op, items) == [op |-> op, items |-> items]
NoCond == [op |-> None, items |-> <<>>]

----------------------------------------------------------------------------
(* Results *)

Ok(v) == [err |-> "none", val |-> v]
Raise(e) == [err |-> e, val |-> None]

ConfigErrors == {"LogsourcesNotAMap", "NotAString", "WillNotMatch", "InvalidIndexType",
                 "IndexPatternsNotStrings", "ConditionsNotAMap", "DefinitionNotAMap"}

----------------------------------------------------------------------------
(* SigmaLogsourceConfiguration *)

LogSource(c, p, s, idx, cond, ixf) ==
    [category |-> c, product |-> p, service |-> s, index |-> idx,
     conditions |-> cond, indexfield |-> ixf]

\* __init__, logsource is None: the empty object.
EmptyLogSource(indexfield) == LogSource(None, None, None, <<>>, NoCond, indexfield)

\* d[key] with KeyError mapped to None.
GetOrNone(v) == IF v = NoKey THEN None ELSE v

\* __init__, dict branch: a definition parsed from YAML.
LoadDict(raw, indexfield) ==
    IF \/ (raw.category # NoKey /\ raw.category = NonStr)
       \/ (raw.product # NoKey /\ raw.product = NonStr)
       \/ (raw.service # NoKey /\ raw.service = NonStr)
    THEN Raise("NotAString")
    ELSE LET c == GetOrNone(raw.category)
             p == GetOrNone(raw.product)
             s == GetOrNone(raw.service)
         IN IF c = None /\ p = None /\ s = None THEN Raise("WillNotMatch")
            ELSE IF raw.index.t # "nokey" /\ raw.index.t \notin {"str", "list", "badlist"}
            THEN Raise("InvalidIndexType")
            ELSE IF raw.index.t = "badlist" THEN Raise("IndexPatternsNotStrings")
            ELSE IF raw.conditions.t # "nokey" /\ raw.conditions.t # "dict"
            THEN Raise("ConditionsNotAMap")
            ELSE Ok(LogSource(c, p, s,
                              IF raw.index.t = "nokey" THEN <<>> ELSE raw.index.v,
                              IF raw.conditions.t = "nokey" THEN NoCond
                              ELSE CondNode(MM_AND, raw.conditions.v),
                              indexfield))

\* The values of attribute a over a list of definitions, None left out.
AttrValues(ls, a) == {ls[i][a] : i \in DOMAIN ls} \ {None}

\* set.pop() with KeyError mapped to None (called on sets of at most one element).
PopOrNone(S) == IF S = {} THEN None ELSE CHOOSE x \in S : TRUE

\* list({index for ls in logsource for index in ls.index})
UnionIndex(ls) == UNION {SeqToSet(ls[i].index) : i \in DOMAIN ls}

\* DefaultIndex without the "not self.index" test: a configured default always wins.
DefaultIndexAlways(index, dflt) ==
    IF dflt.t # "nokey"
    THEN IF dflt.t = "str" THEN Ok({dflt.v[1]})
         ELSE IF dflt.t = "list" THEN Ok(SeqToSet(dflt.v))
         ELSE Raise("InvalidDefaultIndexType")
    ELSE Ok(index)

\* The default index handling of the merge branch.
DefaultIndex(index, dflt) ==
    IF index = {} /\ dflt.t # "nokey"
    THEN IF dflt.t = "str" THEN Ok({dflt.v[1]})
         ELSE IF dflt.t = "list" THEN Ok(SeqToSet(dflt.v))
         ELSE Raise("InvalidDefaultIndexType")
    ELSE Ok(index)

\* indexfields[0] with IndexError mapped to None.
RECURSIVE FirstIndexField(_)
FirstIndexField(ls) ==
    IF ls = <<>> THEN None
    ELSE IF Head(ls).indexfield # None THEN Head(ls).indexfield
    ELSE FirstIndexField(Tail(ls))

\* for ls in logsource: if ls.conditions != None: cond.add(ls.conditions)
RECURSIVE AddConditions(_)
AddConditions(ls) ==
    IF ls = <<>> THEN <<>>
    ELSE IF Head(ls).conditions # NoCond
         THEN <<Head(ls).conditions>> \o AddConditions(Tail(ls))
         ELSE AddConditions(Tail(ls))

\* The conflict test with the products and services forgotten.
ConflictingCategoriesOnly(categories, products, services) ==
    Cardinality(categories) > 1

\* len(categories) > 1 or len(products) > 1 or len(services) > 1
Conflicting(categories, products, services) ==
    Cardinality(categories) > 1 \/ Cardinality(products) > 1
        \/ Cardinality(services) > 1

\* __init__, merge branch: a list of SigmaLogsourceConfiguration objects.
Merge(ls, dflt, mergemethod) ==
    LET categories == AttrValues(ls, "category")
        products == AttrValues(ls, "product")
        services == AttrValues(ls, "service")
    IN IF Conflicting(categories, products, services)
       THEN Raise("MergeConflict")
       ELSE LET idx == DefaultIndex(UnionIndex(ls), dflt)
            IN IF idx.err # "none" THEN Raise(idx.err)
               ELSE IF mergemethod \notin {MM_AND, MM_OR} THEN Raise("InvalidMergeMethod")
               ELSE LET items == AddConditions(ls)
                    IN Ok(LogSource(PopOrNone(categories), PopOrNone(products),
                                    PopOrNone(services), idx.val,
                                    IF Len(items) > 0 THEN CondNode(mergemethod, items)
                                    ELSE NoCond,
                                    FirstIndexField(ls)))

\* SigmaLogsourceConfiguration(logsource, defaultindex, name, mergemethod, indexfield)
\* as set_backend calls it on one value of the logsources map.
Load(raw, indexfield) ==
    IF raw.kind = "null" THEN Ok(EmptyLogSource(indexfield))
    ELSE IF raw.kind = "dict" THEN LoadDict(raw, indexfield)
    ELSE Raise("DefinitionNotAMap")

\* matches: the loop over (category, product, service), from position i on.
Attrs == <<"category", "product", "service">>

RECURSIVE MatchesFrom(_, _, _, _)
MatchesFrom(d, q, i, searched) ==
    IF i > Len(Attrs) THEN (IF searched # 0 THEN "True" ELSE "None")
    ELSE LET searchval == q[Attrs[i]]
             selfval == d[Attrs[i]]
         IN IF searchval = None /\ selfval # None THEN "False"
            ELSE IF selfval # None
                 THEN IF searchval # selfval THEN "False"
                      ELSE MatchesFrom(d, q, i + 1, searched + 1)
                 ELSE MatchesFrom(d, q, i + 1, searched)

\* matches without the final "if searched" test.
matchesNoSearched(d, q) ==
    IF MatchesFrom(d, q, 1, 0) = "False" THEN "False" ELSE "True"

matches(d, q) == MatchesFrom(d, q, 1, 0)

\* Python truth value of what matches returns.
Truthy(r) == r = "True"

----------------------------------------------------------------------------
(* SigmaConfiguration *)

Criteria(c, p, s) == [category |-> c, product |-> p, service |-> s]

RECURSIVE Matching(_, _)
Matching(ls, q) ==
    IF ls = <<>> THEN <<>>
    ELSE IF Truthy(matches(Head(ls), q)) THEN <<Head(ls)>> \o Matching(Tail(ls), q)
         ELSE Matching(Tail(ls), q)

\* get_logsource: the merge is called with the default merge method.
get_logsource(ls, dflt, q) == Merge(Matching(ls, q), dflt, MM_AND)

\* backend.index_field: the class attribute of the attached backend class.
index_field(b) == IF b = "qradar" THEN None ELSE "_index"

\* get_indexfield
get_indexfield(b) == IF b # None THEN index_field(b) ELSE None

\* The loop of set_backend over the definitions from position i on: the list
\* as the loop leaves it, and the error that ended it.
RECURSIVE LoadAll(_, _, _, _)
LoadAll(raws, i, acc, indexfield) ==
    IF i > Len(raws) THEN [err |-> "none", list |-> acc]
    ELSE LET r == Load(raws[i], indexfield)
         IN IF r.err # "none" THEN [err |-> r.err, list |-> acc]
            ELSE LoadAll(raws, i + 1, Append(acc, r.val), indexfield)

\* set_backend
set_backend_result(cfg, ls, b) ==
    IF cfg.logsources.t = "nokey" THEN [err |-> "none", list |-> ls]
    ELSE IF cfg.logsources.t # "dict" THEN [err |-> "LogsourcesNotAMap", list |-> ls]
    ELSE LoadAll(cfg.logsources.v, 1, ls, get_indexfield(b))

----------------------------------------------------------------------------
(* Configuration documents *)

RawDef(kind, c, p, s, idx, cond) ==
    [kind |-> kind, category |-> c, product |-> p, service |-> s,
     index |-> idx, conditions |-> cond]

CondA == CondMap(<< <<"EventID", "1">> >>)
CondB == CondMap(<< <<"Channel", "sec">> >>)

DefAuth == RawDef("dict", "c1", NoKey, NoKey, YStr(IdxAuth), CondA)
DefFlows == RawDef("dict", "c1", "p1", NoKey, YList(<<IdxNetflow, IdxAuth>>), CondB)
DefNoIndex == RawDef("dict", NoKey, "p1", "s1", YAbsent, CondMap(<<>>))
DefNull == RawDef("null", NoKey, NoKey, NoKey, YAbsent, CondAbsent)

GoodDefs == {DefAuth, DefFlows, DefNoIndex, DefNull}

BadDefs ==
    { RawDef("dict", NoKey, NoKey, NoKey, YStr(IdxAuth), CondAbsent),
      RawDef("dict", "c1", NoKey, NoKey, YInt, CondAbsent),
      RawDef("str", NoKey, NoKey, NoKey, YAbsent, CondAbsent) }

RawDefs == GoodDefs \cup BadDefs

DefaultIndexes == {YAbsent, YStr(IdxMain), YList(<<IdxFlows, IdxMain>>), YInt}

LogsourcesValues ==
    {[t |-> "nokey", v |-> <<>>], [t |-> "str", v |-> <<>>]}
    \cup {[t |-> "dict", v |-> ds] : ds \in SeqsUpTo(RawDefs, MaxDefs)}

Documents ==
    [logsourcemerging : {NoKey, MM_OR}, defaultindex : DefaultIndexes,
     logsources : LogsourcesValues]

Categories == {None, "c1"}
Products == {None, "p1"}
Services == {None, "s1"}
Queries == {Criteria(c, p, s) : c \in Categories, p \in Products, s \in Services}

Backends == {"qradar"}

----------------------------------------------------------------------------
(* Calls *)

Call(op, arg, matching, res) == [op |-> op, arg |-> arg, matching |-> matching, res |-> res]

\* SigmaConfiguration.__init__(configyaml)
InitConfig(doc) ==
    /\ config = doc
    /\ logsourcemerging = (IF doc.logsourcemerging = NoKey THEN MM_AND
                           ELSE doc.logsourcemerging)
    /\ defaultindex = doc.defaultindex
    /\ logsources = <<>>
    /\ backend = None
    /\ attached = 0

InitBackend ==
    /\ qradarPrefixAgg = UnsetText
    /\ qradarSuffixAgg = UnsetText
    /\ parsedlogsource = Unset

Init ==
    /\ \E doc \in Documents : InitConfig(doc)
    /\ InitBackend
    /\ last = Call("init", None, <<>>, Ok(None))

\* config.set_backend(b)
SetBackend(b) ==
    /\ attached < MaxAttach
    /\ LET r == set_backend_result(config, logsources, b)
       IN /\ logsources' = r.list
          /\ last' = Call("set_backend", b, <<>>, Raise(r.err))
    /\ backend' = b
    /\ attached' = attached + 1
    /\ UNCHANGED <<config, logsourcemerging, defaultindex>>
    /\ UNCHANGED bevars

\* config.get_logsource(category, product, service)
GetLogsource(q) ==
    /\ last' = Call("get_logsource", q, Matching(logsources, q),
                    get_logsource(logsources, defaultindex, q))
    /\ UNCHANGED cfgvars
    /\ UNCHANGED bevars

Next ==
    \/ \E b \in Backends : SetBackend(b)
    \/ \E q \in Queries : GetLogsource(q)

Spec == Init /\ [][Next]_vars

----------------------------------------------------------------------------
(* The merge constructor called directly on lists of loaded definitions *)

EmptyDocument ==
    [logsourcemerging |-> NoKey, defaultindex |-> YAbsent,
     logsources |-> [t |-> "nokey", v |-> <<>>]]

\* Definitions as the dict branch and the empty branch build them.
MergeDefs ==
    {Load(r, None).val : r \in GoodDefs}
    \cup {Load(RawDef("dict", "c2", NoKey, NoKey, YStr(IdxFlo), CondAbsent), None).val,
          Load(RawDef("dict", "c1", "p2", NoKey, YAbsent, CondAbsent), None).val}

MergeDefaults == DefaultIndexes \cup {YBadList}
MergeMethods == {MM_AND, MM_OR, "xor"}

\* The arguments of one constructor call.
MergeArgs ==
    [ls : SeqsUpTo(MergeDefs, MaxMerge), dflt : MergeDefaults, mergemethod : MergeMethods]

InitMerge ==
    /\ InitConfig(EmptyDocument)
    /\ InitBackend
    /\ \E args \in MergeArgs : last = Call("args", args, <<>>, Ok(None))

\* SigmaLogsourceConfiguration(ls, dflt, None, mergemethod)
MergeDirect ==
    /\ last.op = "args"
    /\ last' = Call("merge", last.arg, <<>>,
                    Merge(last.arg.ls, last.arg.dflt, last.arg.mergemethod))
    /\ UNCHANGED cfgvars
    /\ UNCHANGED bevars

NextMerge == MergeDirect

SpecMerge == InitMerge /\ [][NextMerge]_vars

----------------------------------------------------------------------------
(* Texts *)

SP == " "
SQ == "'"
DQ == "\""
BS == "\\"
STAR == "*"
PCT == "%"

\* sep.join(ts)
RECURSIVE Join(_, _)
Join(ts, sep) ==
    IF ts = <<>> THEN <<>>
    ELSE IF Len(ts) = 1 THEN ts[1]
    ELSE ts[1] \o sep \o Join(Tail(ts), sep)

\* c in t
In(c, t) == \E i \in DOMAIN t : t[i] = c

\* t.replace(c, d), c and d single characters
Replace(t, c, d) == [i \in DOMAIN t |-> IF t[i] = c THEN d ELSE t[i]]

\* sub in t
IsSubstring(sub, t) ==
    \E i \in 0..(Len(t) - Len(sub)) : \A j \in 1..Len(sub) : t[i + j] = sub[j]

Digits == <<"0", "1", "2", "3", "4", "5", "6", "7", "8", "9">>

\* str(n) for an int n >= 0
RECURSIVE IntToStr(_)
IntToStr(n) ==
    IF n < 10 THEN <<Digits[n + 1]>> ELSE IntToStr(n \div 10) \o <<Digits[(n % 10) + 1]>>

\* A scalar of a rule: a str (its characters) or an int.
StrVal(t) == [t |-> "str", v |-> t]
IntVal(n) == [t |-> "int", v |-> n]

\* str(node)
PyStr(x) == IF x.t = "int" THEN IntToStr(x.v) ELSE x.v

----------------------------------------------------------------------------
(* QRadarBackend: class attributes *)

\* reEscape = re.compile('(")'): the characters the pattern matches.
reEscape(c) == c = DQ

andToken == <<SP, "and", SP>>
orToken == <<SP, "or", SP>>
notToken == <<"not", SP>>
listSeparator == <<SP>>
aql_database == "events"

\* subExpression % t
subExpression(t) == <<"(">> \o t \o <<")">>
\* valueExpression % t
valueExpression(t) == <<SQ>> \o t \o <<SQ>>
\* nullExpression % t
nullExpression(t) == t \o <<SP, "is", SP, "null">>
\* notNullExpression % t
notNullExpression(t) == <<"not", SP, "(">> \o t \o <<SP, "is", SP, "null", ")">>
\* mapExpression % (k, v)
mapExpression(k, v) == k \o <<"=">> \o v

----------------------------------------------------------------------------
(* QRadarBackend: rendering of condition nodes *)

\* cleanValue: every match of reEscape gets a backslash in front (reClear is None).
RECURSIVE cleanValue(_)
cleanValue(val) ==
    IF val = <<>> THEN <<>>
    ELSE (IF reEscape(Head(val)) THEN <<BS, Head(val)>> ELSE <<Head(val)>>)
         \o cleanValue(Tail(val))

cleanKey(key) == IF In(SP, key) THEN <<DQ>> \o key \o <<DQ>> ELSE key

generateValueNode(node, keypresent) ==
    IF keypresent = FALSE
    THEN <<"UTF8(payload)", SP, "ilike", SP, SQ, PCT>> \o cleanValue(PyStr(node))
         \o <<PCT, SQ>>
    ELSE valueExpression(cleanValue(PyStr(node)))

\* One clause of generateMapItemListNode.
MapListItem(key, item) ==
    IF item.t = "str" /\ In(STAR, item.v)
    THEN cleanKey(key) \o <<SP, "ilike", SP>>
         \o generateValueNode(StrVal(Replace(item.v, STAR, PCT)), TRUE)
    ELSE cleanKey(key) \o <<SP, "=", SP>> \o generateValueNode(item, TRUE)

generateMapItemListNode(key, value) ==
    <<"(">> \o Join([i \in DOMAIN value |-> MapListItem(key, value[i])], <<SP, "or", SP>>)
    \o <<")">>

\* mapListsSpecialHandling is True: str and int values are rendered here,
\* lists by generateMapItemListNode, everything else is a TypeError.
generateMapItemNode(key, value) ==
    IF value.t \in {"str", "int"}
    THEN IF value.t = "str" /\ In(STAR, value.v)
         THEN Ok(cleanKey(key) \o <<SP, "ilike", SP>>
                 \o generateValueNode(StrVal(Replace(value.v, STAR, PCT)), TRUE))
         ELSE Ok(mapExpression(cleanKey(key), generateValueNode(value, TRUE)))
    ELSE IF value.t = "list" THEN Ok(generateMapItemListNode(key, value.v))
    ELSE Raise("UnsupportedMapValueType")

\* The first error among results, "none" when there is none.
RECURSIVE FirstErr(_)
FirstErr(rs) ==
    IF rs = <<>> THEN "none"
    ELSE IF Head(rs).err # "none" THEN Head(rs).err ELSE FirstErr(Tail(rs))

\* generateANDNode / generateORNode on the rendered items: joined with the token.
generateJoinedNode(generated, token) ==
    IF FirstErr(generated) # "none" THEN Raise(FirstErr(generated))
    ELSE Ok(Join([i \in DOMAIN generated |-> generated[i].val], token))

\* generateNOTNode on the rendered item.
generateNOTNode(generated) ==
    IF generated.err # "none" THEN generated ELSE Ok(notToken \o generated.val)

\* generateSubexpressionNode on the rendered item.
generateSubexpressionNode(generated) ==
    IF generated.err # "none" THEN generated ELSE Ok(subExpression(generated.val))

\* generateListNode: the items of a bare list, each rendered as a value node.
generateListNode(items) ==
    Ok(Join([i \in DOMAIN items |-> generateValueNode(items[i], FALSE)], listSeparator))

\* generateNode: the dispatch on the type of the node.  Nodes with items
\* hold at least one item.
RECURSIVE generateNode(_)
generateNode(node) ==
    IF node.k = "and"
    THEN generateJoinedNode([i \in DOMAIN node.items |-> generateNode(node.items[i])],
                            andToken)
    ELSE IF node.k = "or"
    THEN generateJoinedNode([i \in DOMAIN node.items |-> generateNode(node.items[i])],
                            orToken)
    ELSE IF node.k = "not" THEN generateNOTNode(generateNode(node.item))
    ELSE IF node.k = "null" THEN Ok(nullExpression(node.item))
    ELSE IF node.k = "notnull" THEN Ok(notNullExpression(node.item))
    ELSE IF node.k = "sub" THEN generateSubexpressionNode(generateNode(node.item))
    ELSE IF node.k = "map" THEN generateMapItemNode(node.key, node.value)
    ELSE IF node.k = "scalar" THEN Ok(generateValueNode(node.value, FALSE))
    ELSE IF node.k = "list" THEN generateListNode(node.items)
    ELSE Raise("UnsupportedNodeKind")

----------------------------------------------------------------------------
(* QRadarBackend: aggregation and query *)

\* An optional text: agg.groupfield is None or a field name.
NoText == [some |-> FALSE, v |-> <<>>]
SomeText(t) == [some |-> TRUE, v |-> t]

AGGFUNC_NEAR == "near"

\* parsed.parsedAgg: None, or the aggregation of the rule.
NoAgg ==
    [some |-> FALSE, aggfunc |-> None, aggfield |-> <<>>, groupfield |-> NoText,
     cond_op |-> None, condition |-> <<>>]
Agg(f, field, group, op, cond) ==
    [some |-> TRUE, aggfunc |-> f, aggfield |-> field, groupfield |-> group,
     cond_op |-> op, condition |-> cond]

\* "SELECT f(field) as agg_val from events where"
AggSelect(agg) ==
    <<"SELECT", SP, agg.aggfunc, "(">> \o agg.aggfield
    \o <<")", SP, "as", SP, "agg_val", SP, "from", SP, aql_database, SP, "where">>

\* " group by field having agg_val op condition"
AggGroupBy(field, agg) ==
    <<SP, "group", SP, "by", SP>> \o field
    \o <<SP, "having", SP, "agg_val", SP, agg.cond_op, SP>> \o agg.condition

\* generateAggregation with the suffix assignment of the group_field branch
\* lost: the suffix attribute keeps what an earlier call left in it.
generateAggregationStaleSuffix(agg, prefix, suffix) ==
    IF agg.aggfunc = AGGFUNC_NEAR
    THEN [err |-> "UnsupportedAggregation", prefix |-> prefix, suffix |-> suffix]
    ELSE IF ~agg.groupfield.some
    THEN [err |-> "none", prefix |-> AggSelect(agg),
          suffix |-> AggGroupBy(agg.aggfield, agg)]
    ELSE IF suffix = UnsetText
    THEN [err |-> "AttributeError", prefix |-> <<SP>> \o AggSelect(agg) \o <<SP>>,
          suffix |-> suffix]
    ELSE [err |-> "none", prefix |-> <<SP>> \o AggSelect(agg) \o <<SP>>,
          suffix |-> suffix]

\* generateAggregation(agg), agg not None: the error raised and the attributes
\* qradarPrefixAgg and qradarSuffixAgg after the call, which are what it returns.
generateAggregation(agg, prefix, suffix) ==
    IF agg.aggfunc = AGGFUNC_NEAR
    THEN [err |-> "UnsupportedAggregation", prefix |-> prefix, suffix |-> suffix]
    ELSE IF ~agg.groupfield.some
    THEN [err |-> "none", prefix |-> AggSelect(agg),
          suffix |-> AggGroupBy(agg.aggfield, agg)]
    ELSE [err |-> "none", prefix |-> <<SP>> \o AggSelect(agg) \o <<SP>>,
          suffix |-> AggGroupBy(agg.groupfield.v, agg)]

Flow == <<"f", "l", "o", "w">>

\* sigmaparser.get_logsource(): the rule's criteria resolved by the configuration.
rule_get_logsource(rule, ls, dflt) == get_logsource(ls, dflt, rule.q)

\* The outcome of a generate call and the instance attributes after it.
Outcome(err, val, prefix, suffix, pls) ==
    [err |-> err, val |-> val, prefix |-> prefix, suffix |-> suffix, parsedlogsource |-> pls]

\* generateQuery(parsed, sigmaparser) on a backend whose attributes are
\* prefix, suffix and pls.
generateQuery(rule, ls, dflt, prefix, suffix, pls) ==
    LET result == generateNode(rule.search)
    IN IF result.err # "none" THEN Outcome(result.err, <<>>, prefix, suffix, pls)
       ELSE LET src == rule_get_logsource(rule, ls, dflt)
            IN IF src.err # "none" THEN Outcome(src.err, <<>>, prefix, suffix, pls)
               ELSE LET database == IF \E i \in src.val.index : IsSubstring(Flow, i)
                                    THEN "flows" ELSE "events"
                        qradarPrefix ==
                            <<"SELECT", SP, "UTF8(payload)", SP, "as", SP, "search_payload",
                              SP, "from", SP, database, SP, "where", SP>>
                    IN IF rule.agg.some
                       THEN LET g == generateAggregation(rule.agg, prefix, suffix)
                            IN IF g.err # "none"
                               THEN Outcome(g.err, <<>>, g.prefix, g.suffix, src.val.index)
                               ELSE Outcome("none", g.prefix \o result.val \o g.suffix,
                                            g.prefix, g.suffix, src.val.index)
                       ELSE Outcome("none", qradarPrefix \o result.val,
                                    prefix, suffix, src.val.index)

\* generate(sigmaparser) for a rule with one parsed condition: generateBefore
\* and generateAfter add nothing.
generate(rule, ls, dflt, prefix, suffix, pls) ==
    generateQuery(rule, ls, dflt, prefix, suffix, pls)

----------------------------------------------------------------------------
(* Rendering of one node *)

ValueAlphabet == {"a", SQ, DQ, BS, STAR}
Values ==
    {StrVal(t) : t \in SeqsUpTo(ValueAlphabet, MaxLen)} \cup {IntVal(0), IntVal(4624)}

KeyEventID == <<"EventID">>
KeyLogon == <<"Logon", SP, "Type">>

MapItem(key, value) == [k |-> "map", key |-> key, value |-> value]
MapList(key, items) == [k |-> "map", key |-> key, value |-> [t |-> "list", v |-> items]]
Scalar(value) == [k |-> "scalar", value |-> value]

ValueNodes ==
    {MapItem(KeyEventID, v) : v \in Values}
    \cup {MapList(KeyEventID, <<v>>) : v \in Values}
    \cup {Scalar(v) : v \in Values}

InitValue ==
    /\ InitConfig(EmptyDocument)
    /\ InitBackend
    /\ \E node \in ValueNodes : last = Call("args", node, <<>>, Ok(None))

\* backend.generateNode(node)
RenderNode ==
    /\ last.op = "args"
    /\ last' = Call("generateNode", last.arg, <<>>, generateNode(last.arg))
    /\ UNCHANGED cfgvars
    /\ UNCHANGED bevars

NextValue == RenderNode

SpecValue == InitValue /\ [][NextValue]_vars

----------------------------------------------------------------------------
(* Rules translated by one backend *)

V1 == StrVal(<<"1">>)
VWild == StrVal(<<"a", STAR>>)

GenNodes ==
    { MapItem(KeyEventID, IntVal(4624)),
      MapItem(KeyLogon, VWild),
      [k |-> "and", items |-> <<MapItem(KeyEventID, V1), MapList(KeyLogon, <<V1, VWild>>)>>],
      [k |-> "or", items |-> <<[k |-> "not", item |-> Scalar(V1)],
                               [k |-> "sub", item |-> [k |-> "null", item |-> KeyEventID]]>>],
      [k |-> "map", key |-> KeyEventID, value |-> [t |-> "node", v |-> <<>>]],
      [k |-> "float"] }

GenAggs ==
    { NoAgg,
      Agg("count", KeyEventID, NoText, ">", <<"5">>),
      Agg("count", KeyEventID, SomeText(<<"User">>), ">", <<"5">>),
      Agg("sum", KeyEventID, SomeText(<<"Host">>), "<", <<"5">>),
      Agg(AGGFUNC_NEAR, KeyEventID, NoText, ">", <<"5">>) }

GenQueries == {Criteria("c1", None, None), Criteria("c1", "p1", None)}

Rules == [search : GenNodes, agg : GenAggs, q : GenQueries]

GenDocuments ==
    { [logsourcemerging |-> NoKey, defaultindex |-> YStr(IdxMain),
       logsources |-> [t |-> "dict", v |-> <<DefAuth, DefFlows>>]],
      [logsourcemerging |-> NoKey, defaultindex |-> YInt,
       logsources |-> [t |-> "dict", v |-> <<DefFlows>>]] }

InitGen ==
    /\ \E doc \in GenDocuments : InitConfig(doc)
    /\ InitBackend
    /\ last = Call("init", None, <<>>, Ok(None))

\* backend.generate(sigmaparser)
Generate(rule) ==
    LET o == generate(rule, logsources, defaultindex,
                      qradarPrefixAgg, qradarSuffixAgg, parsedlogsource)
    IN /\ qradarPrefixAgg' = o.prefix
       /\ qradarSuffixAgg' = o.suffix
       /\ parsedlogsource' = o.parsedlogsource
       /\ last' = Call("generate", rule, <<>>, [err |-> o.err, val |-> o.val])
       /\ UNCHANGED cfgvars

NextGen ==
    \/ \E b \in Backends : SetBackend(b)
    \/ \E rule \in Rules : Generate(rule)

SpecGen == InitGen /\ [][NextGen]_vars

----------------------------------------------------------------------------
(* Matching of definitions against criteria *)

Specifies(d) == {a \in {"category", "product", "service"} : d[a] # None}

MatchRule(d, q) ==
    /\ Specifies(d) # {}
    /\ \A a \in Specifies(d) : q[a] # None /\ q[a] = d[a]

----------------------------------------------------------------------------
(* Extra conditions of a resolved log source *)

MatchedConditions(ls) == SelectSeq(ls, LAMBDA d : d.conditions # NoCond)

\* C2: the conditions of the definition get_logsource returns are combined
\* with the configured merge method: a node of that method holding every
\* matched definition's condition, or no condition when there is none.
C2_ConfiguredMergeMethod ==
    (last.op = "get_logsource" /\ last.res.err = "none") =>
        LET conds == MatchedConditions(last.matching)
        IN IF conds = <<>> THEN last.res.val.conditions = NoCond
           ELSE /\ last.res.val.conditions.op = logsourcemerging
                /\ last.res.val.conditions.items =
                       [i \in DOMAIN conds |-> conds[i].conditions]

----------------------------------------------------------------------------
(* Index patterns of a resolved log source *)

IndexUnion(ls) == {p \in UNION {{d.index[j] : j \in DOMAIN d.index} : d \in SeqToSet(ls)} : TRUE}

\* C3: the merged index set is the union of the matched definitions' index
\* patterns when that union is not empty; otherwise it is the configured
\* default (a string, or the strings of a list), the invalid-default-index
\* error for a default of another type, and empty without a default.
C3_MergedIndex ==
    last.op = "get_logsource" =>
        LET U == IndexUnion(last.matching)
        IN IF U # {} THEN last.res.err = "none" /\ last.res.val.index = U
           ELSE IF defaultindex.t = "nokey"
                THEN last.res.err = "none" /\ last.res.val.index = {}
           ELSE IF defaultindex.t = "str"
                THEN last.res.err = "none" /\ last.res.val.index = {defaultindex.v[1]}
           ELSE IF defaultindex.t = "list"
                THEN /\ last.res.err = "none"
                     /\ last.res.val.index =
                            {defaultindex.v[j] : j \in DOMAIN defaultindex.v}
           ELSE last.res.err = "InvalidDefaultIndexType"

\* A definition without index patterns matched and the string default was used.
C3_Witness ==
    /\ last.op = "get_logsource"
    /\ last.matching # <<>>
    /\ IndexUnion(last.matching) = {}
    /\ defaultindex.t = "str"
    /\ last.res.err = "none"
    /\ last.res.val.index = {IdxMain}

----------------------------------------------------------------------------
(* Attaching a backend *)

\* What get_logsource resolves for q, the index field left out.
Resolved(ls, q) ==
    LET r == get_logsource(ls, defaultindex, q)
    IN IF r.err # "none" THEN <<r.err>>
       ELSE <<r.val.category, r.val.product, r.val.service, r.val.index, r.val.conditions>>

\* C9: a set_backend call leaves the merge method, the default index and the
\* log-source list as they were, so that every criteria triple resolves to
\* the same category, product, service, index set and conditions afterwards.
C9_SetBackendFrame ==
    [][last'.op = "set_backend" =>
          /\ logsourcemerging' = logsourcemerging
          /\ defaultindex' = defaultindex
          /\ logsources' = logsources
          /\ \A q \in Queries : Resolved(logsources', q) = Resolved(logsources, q)]_vars

\* C10: when set_backend fails with a configuration error, the log-source
\* list holds none of the definitions of the document.
C10_NoPartialLoad ==
    (last.op = "set_backend" /\ last.res.err \in ConfigErrors) => logsources = <<>>

----------------------------------------------------------------------------
(* Conflicts of a merge *)

Distinct(ls, a) == {d[a] : d \in SeqToSet(ls)} \ {None}

HasConflict(ls) == \E a \in {"category", "product", "service"} : Cardinality(Distinct(ls, a)) > 1

MergedAttrs(ls, r) ==
    \A a \in {"category", "product", "service"} :
        IF Distinct(ls, a) = {} THEN r[a] = None ELSE Distinct(ls, a) = {r[a]}

\* C4 as stated: the merge fails with the merge-conflict error exactly when
\* some attribute has more than one distinct non-absent value; otherwise it
\* succeeds and each merged attribute is the single value found, or absent.
C4_ConflictOrSuccess ==
    last.op = "merge" =>
        /\ last.res.err = "MergeConflict" <=> HasConflict(last.arg.ls)
        /\ ~HasConflict(last.arg.ls) =>
               last.res.err = "none" /\ MergedAttrs(last.arg.ls, last.res.val)

\* C4 amended: the merge fails with the merge-conflict error exactly when
\* some attribute has more than one distinct non-absent value; otherwise it
\* fails with the invalid-default-index error when no definition has an index
\* pattern and the default is neither absent, a string nor a list of strings,
\* else with the merge-method error when the method is neither "and" nor
\* "or", and else succeeds with each merged attribute the single value found,
\* or absent.
C4_ConflictElseAttrs ==
    last.op = "merge" =>
        /\ last.res.err = "MergeConflict" <=> HasConflict(last.arg.ls)
        /\ ~HasConflict(last.arg.ls) =>
               IF IndexUnion(last.arg.ls) = {}
                  /\ last.arg.dflt.t \notin {"nokey", "str", "list"}
               THEN last.res.err = "InvalidDefaultIndexType"
               ELSE IF last.arg.mergemethod \notin {MM_AND, MM_OR}
               THEN last.res.err = "InvalidMergeMethod"
               ELSE last.res.err = "none" /\ MergedAttrs(last.arg.ls, last.res.val)

\* Two different definitions merged without conflict: the category comes from
\* the first, the service from the second.
C4_Witness ==
    /\ last.op = "merge"
    /\ Len(last.arg.ls) = 2
    /\ last.arg.ls[1].service = None /\ last.arg.ls[2].category = None
    /\ last.res.err = "none"
    /\ last.res.val.category # None /\ last.res.val.service # None

----------------------------------------------------------------------------
(* The data source of a query *)

\* The word after "from" in a query.
DataSource(t) == t[(CHOOSE i \in DOMAIN t : t[i] = "from") + 2]

ResolvedIndex(rule) == rule_get_logsource(rule, logsources, defaultindex).val.index

\* C5: with or without an aggregation, the query names the data source
\* "flows" when a resolved index pattern contains "flow" and "events"
\* otherwise.
C5_DataSourceFromIndex ==
    (last.op = "generate" /\ last.res.err = "none") =>
        DataSource(last.res.val) =
            (IF \E i \in ResolvedIndex(last.arg) : IsSubstring(Flow, i)
             THEN "flows" ELSE "events")

----------------------------------------------------------------------------
(* The fragments of an aggregation *)

\* t without its leading and trailing blanks.
RECURSIVE Trim(_)
Trim(t) ==
    IF t = <<>> THEN t
    ELSE IF Head(t) = SP THEN Trim(Tail(t))
    ELSE IF t[Len(t)] = SP THEN Trim(SubSeq(t, 1, Len(t) - 1))
    ELSE t

PrefixText(agg, source) ==
    <<"SELECT", SP, agg.aggfunc, "(">> \o agg.aggfield
    \o <<")", SP, "as", SP, "agg_val", SP, "from", SP, source, SP, "where">>

SuffixText(agg) ==
    <<"group", SP, "by", SP>>
    \o (IF agg.groupfield.some THEN agg.groupfield.v ELSE agg.aggfield)
    \o <<SP, "having", SP, "agg_val", SP, agg.cond_op, SP>> \o agg.condition

\* C6: for an aggregation other than NEAR the prefix is "SELECT f(field) as
\* agg_val from <source> where" with or without a group field, the suffix is
\* "group by <group field or field> having agg_val <op> <threshold>" (both up
\* to surrounding blanks), and the query is prefix, predicate, suffix with
\* the predicate separated from "where" and from "group by".
C6_AggregationFragments ==
    (last.op = "generate" /\ last.arg.agg.some /\ last.res.err = "none") =>
        LET query == last.res.val
            predicate == generateNode(last.arg.search).val
        IN /\ Trim(qradarPrefixAgg) = PrefixText(last.arg.agg, DataSource(query))
           /\ Trim(qradarSuffixAgg) = SuffixText(last.arg.agg)
           /\ query = qradarPrefixAgg \o predicate \o qradarSuffixAgg
           /\ \A i \in DOMAIN query :
                  /\ query[i] = "where" => query[i + 1] = SP
                  /\ query[i] = "group" => query[i - 1] = SP

----------------------------------------------------------------------------
(* Value literals *)

\* The number of backslashes right before position i.
RECURSIVE BackslashRun(_, _)
BackslashRun(t, i) ==
    IF i > 1 /\ t[i - 1] = BS THEN 1 + BackslashRun(t, i - 1) ELSE 0

Unescaped(t, i) == t[i] = SQ /\ BackslashRun(t, i) % 2 = 0

Quotes(t) == {i \in DOMAIN t : t[i] = SQ}
Opening(t) == CHOOSE i \in Quotes(t) : \A j \in Quotes(t) : i <= j
Closing(t) == CHOOSE i \in Quotes(t) : \A j \in Quotes(t) : j <= i

\* C7: in the literal emitted for a scalar, in a map item, a map item list
\* or a free-text search, no unescaped single quote stands between the
\* opening and the closing single quote.
C7_NoUnescapedDelimiter ==
    (last.op = "generateNode" /\ last.res.err = "none") =>
        LET t == last.res.val
        IN \A i \in (Opening(t) + 1)..(Closing(t) - 1) : ~Unescaped(t, i)

----------------------------------------------------------------------------
(* Independence of generate calls *)

\* The outcome of generate(rule) on a backend that translated nothing yet.
FreshOutcome(rule) ==
    LET o == generate(rule, logsources, defaultindex, UnsetText, UnsetText, Unset)
    IN [err |-> o.err, val |-> o.val]

\* C8: the outcome of every generate call, a query or an error, is the
\* outcome the same rule gives on a fresh backend with the same
\* configuration, whatever was translated before.
C8_OutcomeOfRuleOnly ==
    last.op = "generate" => last.res = FreshOutcome(last.arg)

\* A NEAR rule failed on an attached backend that still holds the fragments
\* of an aggregation rule translated before it.
C8_Witness ==
    /\ last.op = "generate"
    /\ last.res.err = "UnsupportedAggregation"
    /\ qradarPrefixAgg # UnsetText
    /\ attached > 0

====
